---- MODULE Spec2Model ----
(***************************************************************************)
(* A model of the demo e-commerce backend:                                 *)
(*   - src/mcp_blueprint.py and src/mcp_blueprint_new.py: the MCP session  *)
(*     registry (active_sessions) and the four /mcp handlers, in the plain *)
(*     variant ("old") and the rate-limited variant ("new");               *)
(*   - src/main.py: the order store, the current-user slot, the API-key    *)
(*     wrapper and the HTTP route handlers.                                *)
(* Python None and an absent dict key are both written None where the code *)
(* reads them with dict.get.  Amounts of money are integer cents, on which *)
(* round(x, 2) is exact; quantities are counted in halves so that the      *)
(* truncation done by int() is visible.                                    *)
(***************************************************************************)
EXTENDS Integers, Sequences, FiniteSets, TLC

VARIABLES
    variant,          \* which blueprint file is deployed: "old" or "new"
    active_sessions,  \* the session registry (a dict: session id -> data)
    now,              \* the value time.time() returns
    ticks,            \* how often the clock has advanced (bounds the model)
    mcp_response,     \* the last /mcp response
    opened,           \* history: ids opened and not closed since
    last_ok,          \* history: time of the last open or accepted validate
    CURRENT_ORDERS,   \* main.py's _CURRENT_ORDERS: email -> list of orders
    CURRENT_USER,     \* main.py's _CURRENT_USER: <<>> (None) or <<user>>
    http_response,    \* the last response of a main.py route
    call,             \* the last direct call of a main.py function
    memory,           \* the objects of the order store and of its callers
    threads           \* the /mcp requests in progress, statement by statement

mcp_vars == <<variant, active_sessions, now, ticks, mcp_response, opened, last_ok>>

app_vars == <<CURRENT_ORDERS, CURRENT_USER, http_response>>

side_vars == <<memory, threads>>

vars == <<variant, active_sessions, now, ticks, mcp_response, opened, last_ok,
          CURRENT_ORDERS, CURRENT_USER, http_response, call, memory, threads>>

None == "None"

----------------------------------------------------------------------------
(* Bounds of the model *)

\* How often the clock advances in a run
MaxTicks == 3

\* How many orders the store holds at most, over all users
MaxOrders == 2

\* How many line items an order has at most
MaxLines == 2

\* How many requests of one rate-limit window a run follows from the
\* window's start, and how many before the ceiling an already used session
\* starts with
MaxCount == 2

(* Program constants *)

SESSION_TIMEOUT == 1800
MAX_REQUESTS_PER_MINUTE == 60
RATE_LIMIT_WINDOW == 60

(* The session ids a client opens or uuid4 generates *)
SessionIds == {"s1"}

(* How far the clock moves between two requests *)
TickSteps == {1, 60, 1740}

----------------------------------------------------------------------------
(* dict helpers *)

DictDel(d, k) == [x \in (DOMAIN d) \ {k} |-> d[x]]

DictSet(d, k, v) == [x \in (DOMAIN d) \cup {k} |-> IF x = k THEN v ELSE d[x]]

EmptyDict == [x \in {} |-> None]

\* dict.get(k): the value, or None for an absent key
Get(d, k) == IF k \in DOMAIN d THEN d[k] ELSE None

\* dict.update: the fields of u replace or extend those of d
DictUpdate(d, u) ==
    [f \in (DOMAIN d) \cup (DOMAIN u) |-> IF f \in DOMAIN u THEN u[f] ELSE d[f]]

\* del lst[i]
SeqDel(lst, i) ==
    [j \in 1..(Len(lst) - 1) |-> IF j < i THEN lst[j] ELSE lst[j + 1]]

----------------------------------------------------------------------------
(* The order store of main.py.  An order is a dict (field -> value), a     *)
(* user's orders a list, the store a dict email -> list.  copy.deepcopy    *)
(* yields an equal value.  An Optional[order] is a list of at most one     *)
(* order: <<>> is None.                                                    *)

\* The index of the first order of the list whose id is order_id, or 0
FirstWithId(orders, order_id) ==
    IF \E i \in 1..Len(orders) : Get(orders[i], "id") = order_id
    THEN CHOOSE i \in 1..Len(orders) :
            /\ Get(orders[i], "id") = order_id
            /\ \A j \in 1..(i - 1) : Get(orders[j], "id") # order_id
    ELSE 0

get_orders_for_user(store, email) ==
    IF email \in DOMAIN store THEN store[email] ELSE <<>>

set_orders_for_user(store, email, orders) == DictSet(store, email, orders)

\* An add_order_for_user that reads the list with get(email, []) instead
\* of setdefault: the order of a user without an entry is lost
add_order_for_user_get(store, email, order) ==
    IF email \in DOMAIN store
    THEN DictSet(store, email, Append(store[email], order))
    ELSE store

add_order_for_user(store, email, order) ==
    DictSet(store, email, Append(get_orders_for_user(store, email), order))

find_order_for_user(store, email, order_id) ==
    LET orders == get_orders_for_user(store, email)
        i == FirstWithId(orders, order_id)
    IN IF i = 0 THEN <<>> ELSE <<orders[i]>>

\* update_order_for_user's return value
update_order_for_user_result(store, email, order_id) ==
    /\ email \in DOMAIN store
    /\ FirstWithId(store[email], order_id) # 0

\* An update_order_for_user that puts the updates in the order's place
update_order_for_user_replace(store, email, order_id, updates) ==
    IF update_order_for_user_result(store, email, order_id)
    THEN LET i == FirstWithId(store[email], order_id) IN
         [store EXCEPT ![email][i] = updates]
    ELSE store

\* The store after update_order_for_user
update_order_for_user(store, email, order_id, updates) ==
    IF update_order_for_user_result(store, email, order_id)
    THEN LET i == FirstWithId(store[email], order_id) IN
         [store EXCEPT ![email][i] = DictUpdate(store[email][i], updates)]
    ELSE store

\* remove_order_for_user's return value
remove_order_for_user_result(store, email, order_id) ==
    /\ email \in DOMAIN store
    /\ FirstWithId(store[email], order_id) # 0

\* A remove_order_for_user without the cleanup of the emptied list
remove_order_for_user_no_cleanup(store, email, order_id) ==
    IF remove_order_for_user_result(store, email, order_id)
    THEN [store EXCEPT
            ![email] = SeqDel(store[email], FirstWithId(store[email], order_id))]
    ELSE store

\* The store after remove_order_for_user
remove_order_for_user(store, email, order_id) ==
    IF remove_order_for_user_result(store, email, order_id)
    THEN LET rest == SeqDel(store[email], FirstWithId(store[email], order_id))
         IN IF rest = <<>> THEN DictDel(store, email)
            ELSE [store EXCEPT ![email] = rest]
    ELSE store

clear_orders_for_user(store, email) == DictDel(store, email)

clear_all_orders == EmptyDict

----------------------------------------------------------------------------
(* recalc_order_total.  A JSON value read as a number is Num(k), Null or   *)
(* Str (a string that is no number); an absent field is no key of the      *)
(* dict.  A price of p is Num(100 * p), in cents; a quantity of q is       *)
(* Num(2 * q), in halves.  Subtotals and totals are integers, in cents.    *)

Num(k) == [t |-> "num", v |-> k]

Null == [t |-> "null", v |-> 0]

Str == [t |-> "str", v |-> 0]

\* it.get(field, 0) or 0: an absent, null or zero value reads as 0
OrZero(it, field) ==
    IF field \notin DOMAIN it THEN Num(0)
    ELSE IF it[field].t = "null" THEN Num(0)
    ELSE it[field]

\* float(x) and int(x) raise ValueError on a string that is no number
Raises(x) == x.t = "str"

\* float(x) of a price, in cents
PyFloat(x) == x.v

\* An int() that rounds down instead of toward zero
PyInt_floor(x) == IF x.v >= 0 THEN x.v \div 2 ELSE -((1 - x.v) \div 2)

\* int(x) of a quantity given in halves: truncation toward zero
PyInt(x) == IF x.v >= 0 THEN x.v \div 2 ELSE -((-x.v) \div 2)

\* Whether the loop body raises on a line item
LineRaises(it) ==
    Raises(OrZero(it, "price")) \/ Raises(OrZero(it, "quantity"))

\* subtotal = round(price * qty, 2), exact on cents times an integer
LineSubtotal(it) ==
    PyFloat(OrZero(it, "price")) * PyInt(OrZero(it, "quantity"))

\* order.get("items", [])
OrderItems(order) == IF "items" \in DOMAIN order THEN order["items"] ELSE <<>>

\* Whether recalc_order_total raises
recalc_order_total_raises(order) ==
    \E i \in 1..Len(OrderItems(order)) : LineRaises(OrderItems(order)[i])

RECURSIVE SumSubtotals(_, _)
SumSubtotals(items, n) ==
    IF n = 0 THEN 0
    ELSE SumSubtotals(items, n - 1) + LineSubtotal(items[n])

\* recalc_order_total's return value (when it does not raise)
recalc_order_total(order) ==
    SumSubtotals(OrderItems(order), Len(OrderItems(order)))

\* The order after recalc_order_total, which sets it["subtotal"] in place
recalc_order_total_effect(order) ==
    IF "items" \in DOMAIN order
    THEN [order EXCEPT !["items"] =
            [i \in 1..Len(order["items"]) |->
                DictSet(order["items"][i], "subtotal",
                        LineSubtotal(order["items"][i]))]]
    ELSE order

----------------------------------------------------------------------------
(* The session registry, rate-limited variant (mcp_blueprint_new.py) *)

\* The entry session_open stores
NewSession(t) == [timestamp |-> t, request_count |-> 0, last_request |-> t]

\* A validate_session that lets one request more through in each window
validate_session_new_outcome_over(sessions, sid, t) ==
    IF sid \notin DOMAIN sessions THEN "absent"
    ELSE IF t - sessions[sid].timestamp > SESSION_TIMEOUT THEN "expired"
    ELSE IF t - sessions[sid].last_request < RATE_LIMIT_WINDOW
            /\ sessions[sid].request_count > MAX_REQUESTS_PER_MINUTE
         THEN "limited"
    ELSE "ok"

\* validate_session's decision: "absent", "expired", "limited" or "ok"
validate_session_new_outcome(sessions, sid, t) ==
    IF sid \notin DOMAIN sessions THEN "absent"
    ELSE IF t - sessions[sid].timestamp > SESSION_TIMEOUT THEN "expired"
    ELSE IF t - sessions[sid].last_request < RATE_LIMIT_WINDOW
            /\ sessions[sid].request_count >= MAX_REQUESTS_PER_MINUTE
         THEN "limited"
    ELSE "ok"

\* validate_session's return value
validate_session_new_result(sessions, sid, t) ==
    validate_session_new_outcome(sessions, sid, t) = "ok"

\* A validate_session that leaves an expired entry in the registry
validate_session_new_effect_keeps_expired(sessions, sid, t) ==
    LET outcome == validate_session_new_outcome(sessions, sid, t) IN
    IF outcome = "ok"
    THEN DictSet(sessions, sid,
                 [timestamp |-> t, last_request |-> t,
                  request_count |->
                      IF t - sessions[sid].last_request < RATE_LIMIT_WINDOW
                      THEN sessions[sid].request_count + 1 ELSE 1])
    ELSE sessions

\* The registry after validate_session
validate_session_new_effect(sessions, sid, t) ==
    LET outcome == validate_session_new_outcome(sessions, sid, t) IN
    CASE outcome = "absent"  -> sessions
      [] outcome = "expired" -> DictDel(sessions, sid)
      [] outcome = "limited" -> sessions
      [] outcome = "ok" ->
           LET s == sessions[sid]
               base == IF t - s.last_request < RATE_LIMIT_WINDOW
                       THEN s.request_count ELSE 0
           IN DictSet(sessions, sid,
                      [timestamp |-> t, last_request |-> t,
                       request_count |-> base + 1])

----------------------------------------------------------------------------
(* The session registry, plain variant (mcp_blueprint.py): id -> timestamp *)

validate_session_old_outcome(sessions, sid, t) ==
    IF sid \notin DOMAIN sessions THEN "absent"
    ELSE IF t - sessions[sid] > SESSION_TIMEOUT THEN "expired"
    ELSE "ok"

validate_session_old_result(sessions, sid, t) ==
    validate_session_old_outcome(sessions, sid, t) = "ok"

validate_session_old_effect(sessions, sid, t) ==
    LET outcome == validate_session_old_outcome(sessions, sid, t) IN
    CASE outcome = "absent"  -> sessions
      [] outcome = "expired" -> DictDel(sessions, sid)
      [] outcome = "ok"      -> DictSet(sessions, sid, t)

----------------------------------------------------------------------------
(* Both variants behind one name *)

validate_session_result(sessions, sid, t) ==
    IF variant = "new" THEN validate_session_new_result(sessions, sid, t)
    ELSE validate_session_old_result(sessions, sid, t)

validate_session_effect(sessions, sid, t) ==
    IF variant = "new" THEN validate_session_new_effect(sessions, sid, t)
    ELSE validate_session_old_effect(sessions, sid, t)

----------------------------------------------------------------------------
(* The /mcp requests.  A request carries the X-API-KEY header (which no    *)
(* /mcp handler reads) and a JSON body.                                    *)

API_KEY == "qqww22ttzxqwr6778"

ALLOWED_KEYS == {API_KEY}

\* The X-API-KEY headers a client sends: the key, a wrong one, an empty
\* one, or none
Keys == {API_KEY, "wrong", "", None}

\* The headers sent to /mcp, whose handlers do not read them
McpKeys == {API_KEY, None}

\* A body with bad = TRUE is one get_json(force=True) raises on
BadJson(body) == body.bad

\* session_id fields a client sends to the handlers that look a session up
SessionIdInputs == SessionIds \cup {"s0", None}

\* The resources asked for: one both variants serve, one only the
\* rate-limited variant serves, one neither serves
Resources == {"products", "faq", "returns"}

\* The tools asked for: one both variants run, one only the rate-limited
\* variant runs, one only the plain variant runs, one neither runs
Tools == {"search_products", "search_faq", "check_order",
          "check_return_eligibility"}

\* Python truthiness of a session_id field
Truthy(x) == x # None /\ x # ""

\* A key check that lets every header through that was sent at all
is_valid_api_key_present(key) == key # None

\* is_valid_api_key of main.py: the check a protected route makes
is_valid_api_key(key) ==
    IF key = None \/ key = "" THEN FALSE ELSE key \in ALLOWED_KEYS

\* A response, with what the request carried: whether its X-API-KEY was
\* valid, its session id, and the resource or tool it named
Response(route, key, sid, what, status, error, payload) ==
    [route |-> route, key_valid |-> is_valid_api_key(key), sid |-> sid,
     what |-> what, status |-> status, error |-> error, payload |-> payload]

\* What get_json raising leads to: handle_errors answers 500 in the
\* rate-limited variant, the handler's own except answers 400 in the other
BadJsonResponse(route, key) ==
    IF variant = "new"
    THEN Response(route, key, None, None, 500, "internal_error", "none")
    ELSE Response(route, key, None, None, 400, "invalid_json", "none")

\* POST /mcp/session/open.  sid = None: the body has no session_id and
\* uuid4 supplies one, an id no session has.
session_open(key, body, fresh) ==
    IF BadJson(body)
    THEN /\ mcp_response' = BadJsonResponse("session_open", key)
         /\ UNCHANGED <<active_sessions, opened, last_ok>>
    ELSE LET session_id == IF body.session_id = None THEN fresh
                           ELSE body.session_id IN
         /\ active_sessions' =
                DictSet(active_sessions, session_id,
                        IF variant = "new" THEN NewSession(now) ELSE now)
         /\ opened' = opened \cup {session_id}
         /\ last_ok' = [last_ok EXCEPT ![session_id] = now]
         /\ mcp_response' = Response("session_open", key, session_id, None,
                                     200, None, "capabilities")

\* The resources context_request serves
KnownResources ==
    IF variant = "new" THEN {"products", "faq", "categories", "orders"}
    ELSE {"products", "orders"}

\* A session check that only looks whether a session id was sent
SessionGate_no_validate(session_id) == Truthy(session_id)

\* The part of a handler shared by context_request and tool_run: the
\* session check, with validate_session's effect on the registry
SessionGate(session_id) ==
    Truthy(session_id) /\ validate_session_result(active_sessions, session_id, now)

SessionGateEffect(session_id) ==
    /\ active_sessions' =
           IF Truthy(session_id)
           THEN validate_session_effect(active_sessions, session_id, now)
           ELSE active_sessions
    /\ last_ok' = IF SessionGate(session_id)
                  THEN [last_ok EXCEPT ![session_id] = now]
                  ELSE last_ok
    /\ UNCHANGED opened

\* POST /mcp/context/request
context_request(key, body) ==
    IF BadJson(body)
    THEN /\ mcp_response' = BadJsonResponse("context_request", key)
         /\ UNCHANGED <<active_sessions, opened, last_ok>>
    ELSE /\ SessionGateEffect(body.session_id)
         /\ mcp_response' =
              IF ~SessionGate(body.session_id)
              THEN Response("context_request", key, body.session_id,
                            body.resource, 401, "invalid_session", "none")
              ELSE IF body.resource \in KnownResources
              THEN Response("context_request", key, body.session_id,
                            body.resource, 200, None, "data")
              ELSE Response("context_request", key, body.session_id,
                            body.resource, 404, "resource_not_found", "none")

\* The tools tool_run has a branch for
SupportedTools ==
    IF variant = "new"
    THEN {"search_products", "search_faq", "analyze_sentiment",
          "categorize_ticket"}
    ELSE {"search_products", "check_order"}

\* A tool_run that answers an unknown tool like an unknown resource
ToolResult_not_found(key, body) ==
    IF body.tool \in SupportedTools
    THEN Response("tool_run", key, body.session_id, body.tool, 200,
                  None, "output")
    ELSE Response("tool_run", key, body.session_id, body.tool, 404,
                  "unknown_tool", "none")

\* The answer of tool_run once the session is accepted
ToolResult(key, body) ==
    LET Ok == Response("tool_run", key, body.session_id, body.tool, 200,
                       None, "output")
        Raised == Response("tool_run", key, body.session_id, body.tool, 500,
                           "internal_error", "none")
    IN
    IF body.tool \notin SupportedTools
    THEN Response("tool_run", key, body.session_id, body.tool, 400,
                  "unknown_tool", "none")
    \* inputs.get(...) on an "input" that is no JSON object raises
    ELSE IF body.input # "dict" THEN Raised
    ELSE IF body.tool = "check_order" /\ body.order_id # "ORD12345"
    THEN Response("tool_run", key, body.session_id, body.tool, 404,
                  "order_not_found", "none")
    ELSE Ok

\* POST /mcp/tool/run
tool_run(key, body) ==
    IF BadJson(body)
    THEN /\ mcp_response' = BadJsonResponse("tool_run", key)
         /\ UNCHANGED <<active_sessions, opened, last_ok>>
    ELSE /\ SessionGateEffect(body.session_id)
         /\ mcp_response' =
              IF ~SessionGate(body.session_id)
              THEN Response("tool_run", key, body.session_id, body.tool,
                            401, "invalid_session", "none")
              ELSE ToolResult(key, body)

\* POST /mcp/session/close
session_close(key, body) ==
    IF BadJson(body)
    THEN /\ mcp_response' = BadJsonResponse("session_close", key)
         /\ UNCHANGED <<active_sessions, opened, last_ok>>
    ELSE IF body.session_id \in DOMAIN active_sessions
    THEN /\ active_sessions' = DictDel(active_sessions, body.session_id)
         /\ opened' = opened \ {body.session_id}
         /\ last_ok' = last_ok
         /\ mcp_response' = Response("session_close", key, body.session_id,
                                     None, 200, None, "ok")
    ELSE /\ mcp_response' = Response("session_close", key, body.session_id,
                                     None, 404, "session_not_found", "none")
         /\ opened' = opened \ {body.session_id}
         /\ UNCHANGED <<active_sessions, last_ok>>

\* No object allocated, no request in progress
SideIdle ==
    /\ memory = [objs |-> <<>>, orders |-> 0, held |-> {}]
    /\ threads = <<>>

\* The main.py state while only the /mcp routes are exercised
AppIdle ==
    /\ CURRENT_ORDERS = EmptyDict
    /\ CURRENT_USER = <<>>
    /\ http_response = [route |-> "none"]

NoCall == [fn |-> "none"]

\* time.time() moves on between two requests
Tick ==
    /\ ticks < MaxTicks
    /\ \E d \in TickSteps : now' = now + d
    /\ ticks' = ticks + 1
    /\ UNCHANGED <<variant, active_sessions, mcp_response, opened, last_ok>>
    /\ UNCHANGED <<app_vars, call, side_vars>>

\* The bodies sent to session/open (session_id = None: no such field) and
\* to session/close
OpenBodies ==
    {[bad |-> TRUE, session_id |-> None]}
    \cup [bad : {FALSE}, session_id : SessionIds \cup {None}]

CloseBodies ==
    {[bad |-> TRUE, session_id |-> None]}
    \cup [bad : {FALSE}, session_id : SessionIdInputs]

ContextBodies ==
    {[bad |-> TRUE, session_id |-> None, resource |-> None]}
    \cup [bad : {FALSE}, session_id : SessionIdInputs, resource : Resources]

\* input is "dict" for a JSON object (or no input field) and "str" for
\* any other JSON value; order_id is input.order_id, read by check_order
ToolBodies ==
    {[bad |-> TRUE, session_id |-> None, tool |-> None, input |-> "dict",
      order_id |-> None]}
    \cup [bad : {FALSE}, session_id : SessionIdInputs, tool : Tools,
          input : {"dict"}, order_id : {"ORD12345"}]
    \cup [bad : {FALSE}, session_id : SessionIdInputs,
          tool : {"search_products", "check_order"},
          input : {"str"}, order_id : {None}]
    \cup [bad : {FALSE}, session_id : SessionIdInputs, tool : {"check_order"},
          input : {"dict"}, order_id : {"ORD00000"}]

\* The registry at the start: empty, or (rate-limited variant) holding a
\* session opened at time 0 that has had all but MaxCount of the requests
\* its window allows, all at time 0
McpInit ==
    /\ variant \in {"old", "new"}
    /\ SideIdle
    /\ now = 0
    /\ ticks = 0
    /\ mcp_response = Response("none", None, None, None, 0, None, "none")
    /\ last_ok = [s \in SessionIdInputs |-> 0]
    /\ AppIdle
    /\ call = NoCall
    /\ \/ /\ active_sessions = EmptyDict
          /\ opened = {}
       \/ /\ variant = "new"
          /\ active_sessions =
                DictSet(EmptyDict, "s1",
                        [timestamp |-> 0, last_request |-> 0,
                         request_count |-> MAX_REQUESTS_PER_MINUTE - MaxCount])
          /\ opened = {"s1"}

SessionOpenStep ==
    /\ \E key \in McpKeys, body \in OpenBodies :
          IF ~BadJson(body) /\ body.session_id = None
          THEN \E fresh \in SessionIds \ DOMAIN active_sessions :
                   session_open(key, body, fresh)
          ELSE session_open(key, body, None)
    /\ UNCHANGED <<variant, now, ticks, app_vars, call, side_vars>>

\* The bound on the requests followed within one rate-limit window: the
\* counters stay within MaxCount of 0 or of the ceiling
CountsBounded(sessions) ==
    variant = "new" =>
        \A s \in DOMAIN sessions :
            \/ sessions[s].request_count <= MaxCount
            \/ sessions[s].request_count >= MAX_REQUESTS_PER_MINUTE - MaxCount

ContextRequestStep ==
    /\ \E key \in McpKeys, body \in ContextBodies : context_request(key, body)
    /\ CountsBounded(active_sessions')
    /\ UNCHANGED <<variant, now, ticks, app_vars, call, side_vars>>

ToolRunStep ==
    /\ \E key \in McpKeys, body \in ToolBodies : tool_run(key, body)
    /\ CountsBounded(active_sessions')
    /\ UNCHANGED <<variant, now, ticks, app_vars, call, side_vars>>

SessionCloseStep ==
    /\ \E key \in McpKeys, body \in CloseBodies :
          session_close(key, body)
    /\ UNCHANGED <<variant, now, ticks, app_vars, call, side_vars>>

McpNext ==
    \/ SessionOpenStep
    \/ ContextRequestStep
    \/ ToolRunStep
    \/ SessionCloseStep
    \/ Tick

SpecMcp == McpInit /\ [][McpNext]_vars

----------------------------------------------------------------------------
(* The order store called directly, function by function *)

Emails == {"anto.sf3688@gmail.com", "b@example.com"}

OrderIds == {"ORD1", "ORD2"}

\* The orders handed to the store: with an id and a status, or with no id
OrderInputs ==
    [id : OrderIds, status : {"Processing", "Shipped"}]
    \cup {[status |-> "Processing"]}

\* The partial orders handed to update_order_for_user
UpdateInputs == {[status |-> "Shipped"], [id |-> "ORD2"]}

\* The ids looked up: None is what o.get("id") gives for an order without
OrderIdInputs == OrderIds \cup {None}

\* Lists of at most n orders
OrderLists(n) == UNION {[1..k -> OrderInputs] : k \in 0..n}

\* The number of orders in the store
StoreSize(store) ==
    LET RECURSIVE Sum(_)
        Sum(es) == IF es = {} THEN 0
                   ELSE LET e == CHOOSE x \in es : TRUE
                        IN Len(store[e]) + Sum(es \ {e})
    IN Sum(DOMAIN store)

McpIdle ==
    /\ variant = "new"
    /\ active_sessions = EmptyDict
    /\ now = 0
    /\ ticks = 0
    /\ mcp_response = Response("none", None, None, None, 0, None, "none")
    /\ opened = {}
    /\ last_ok = [s \in SessionIdInputs |-> 0]

StoreInit ==
    /\ McpIdle
    /\ SideIdle
    /\ AppIdle
    /\ call = NoCall

Call(fn, email, id, arg, ok, out) ==
    [fn |-> fn, email |-> email, id |-> id, arg |-> arg, ok |-> ok, out |-> out]

GetOrdersCall ==
    /\ \E email \in Emails :
            /\ call' = Call("get_orders_for_user", email, None, <<>>, TRUE,
                            get_orders_for_user(CURRENT_ORDERS, email))
            /\ UNCHANGED CURRENT_ORDERS
    /\ UNCHANGED <<side_vars, mcp_vars, CURRENT_USER, http_response>>

SetOrdersCall ==
    /\ \E email \in Emails, orders \in OrderLists(MaxOrders) :
            /\ CURRENT_ORDERS' = set_orders_for_user(CURRENT_ORDERS, email, orders)
            /\ StoreSize(CURRENT_ORDERS') <= MaxOrders
            /\ call' = Call("set_orders_for_user", email, None, orders, TRUE, <<>>)
    /\ UNCHANGED <<side_vars, mcp_vars, CURRENT_USER, http_response>>

AddOrderCall ==
    /\ \E email \in Emails, order \in OrderInputs :
            /\ StoreSize(CURRENT_ORDERS) < MaxOrders
            /\ CURRENT_ORDERS' = add_order_for_user(CURRENT_ORDERS, email, order)
            /\ call' = Call("add_order_for_user", email, Get(order, "id"),
                            <<order>>, TRUE, <<>>)
    /\ UNCHANGED <<side_vars, mcp_vars, CURRENT_USER, http_response>>

FindOrderCall ==
    /\ \E email \in Emails, order_id \in OrderIdInputs :
            /\ call' = Call("find_order_for_user", email, order_id, <<>>, TRUE,
                            find_order_for_user(CURRENT_ORDERS, email, order_id))
            /\ UNCHANGED CURRENT_ORDERS
    /\ UNCHANGED <<side_vars, mcp_vars, CURRENT_USER, http_response>>

UpdateOrderCall ==
    /\ \E email \in Emails, order_id \in OrderIdInputs, updates \in UpdateInputs :
            /\ CURRENT_ORDERS' =
                   update_order_for_user(CURRENT_ORDERS, email, order_id, updates)
            /\ call' = Call("update_order_for_user", email, order_id, <<updates>>,
                            update_order_for_user_result(CURRENT_ORDERS, email,
                                                         order_id),
                            <<>>)
    /\ UNCHANGED <<side_vars, mcp_vars, CURRENT_USER, http_response>>

RemoveOrderCall ==
    /\ \E email \in Emails, order_id \in OrderIdInputs :
            /\ CURRENT_ORDERS' =
                   remove_order_for_user(CURRENT_ORDERS, email, order_id)
            /\ call' = Call("remove_order_for_user", email, order_id, <<>>,
                            remove_order_for_user_result(CURRENT_ORDERS, email,
                                                         order_id),
                            <<>>)
    /\ UNCHANGED <<side_vars, mcp_vars, CURRENT_USER, http_response>>

ClearOrdersCall ==
    /\ \E email \in Emails :
            /\ CURRENT_ORDERS' = clear_orders_for_user(CURRENT_ORDERS, email)
            /\ call' = Call("clear_orders_for_user", email, None, <<>>, TRUE, <<>>)
    /\ UNCHANGED <<side_vars, mcp_vars, CURRENT_USER, http_response>>

ClearAllCall ==
    /\ CURRENT_ORDERS' = clear_all_orders
    /\ call' = Call("clear_all_orders", None, None, <<>>, TRUE, <<>>)
    /\ UNCHANGED <<side_vars, mcp_vars, CURRENT_USER, http_response>>

StoreNext ==
    \/ GetOrdersCall
    \/ SetOrdersCall
    \/ AddOrderCall
    \/ FindOrderCall
    \/ UpdateOrderCall
    \/ RemoveOrderCall
    \/ ClearOrdersCall
    \/ ClearAllCall

SpecStore == StoreInit /\ [][StoreNext]_vars

----------------------------------------------------------------------------
(* The routes of main.py.  A request carries the X-API-KEY header and what *)
(* the handler reads of it; a response records the request with the        *)
(* status, the "error" of the JSON body and the orders in the body.        *)

DefaultUser == [email |-> "anto.sf3688@gmail.com", password |-> "password"]

\* get_current_user: the slot's user or, when the slot is empty, the
\* built-in user; <<>> stands for a falsy result
get_current_user(slot) == IF slot # <<>> THEN slot ELSE <<DefaultUser>>

\* str.strip() on the strings the requests carry
Strip(str) ==
    CASE str = " b@example.com " -> "b@example.com"
      [] str = "  " -> ""
      [] str = " ORD1 " -> "ORD1"
      [] str = " Tea " -> "Tea"
      [] OTHER -> str

\* '@' in email and '.' in email.split('@')[-1], on the emails sent
EmailFormatOk(email) == email \in {"anto.sf3688@gmail.com", "b@example.com"}

HttpResponse(route, key, entered, status, error, order_id, payload, body) ==
    [route |-> route, key |-> key, entered |-> entered, status |-> status,
     error |-> error, order_id |-> order_id, payload |-> payload,
     body |-> body]

\* What a handler answers: its status, error and body, for the request's
\* order id and payload
Answer(route, key, status, error, order_id, payload, body) ==
    HttpResponse(route, key, TRUE, status, error, order_id, payload, body)

\* require_api_key: the wrapped view runs only behind a valid key
require_api_key(route, key, view) ==
    IF ~is_valid_api_key(key)
    THEN /\ http_response' = HttpResponse(route, key, FALSE, 401,
                                          "Invalid or missing API key",
                                          None, <<>>, <<>>)
         /\ UNCHANGED <<CURRENT_ORDERS, CURRENT_USER>>
    ELSE view

\* GET /api/items
get_items(key) ==
    /\ http_response' = Answer("get_items", key, 200, None, None, <<>>, <<>>)
    /\ UNCHANGED <<CURRENT_ORDERS, CURRENT_USER>>

\* POST /logout
logout(key) ==
    LET user == get_current_user(CURRENT_USER) IN
    IF user # <<>>
    THEN /\ CURRENT_USER' = <<>>
         /\ http_response' = Answer("logout", key, 200, None, None, <<>>, <<>>)
         /\ UNCHANGED CURRENT_ORDERS
    ELSE /\ http_response' = Answer("logout", key, 401, "No user logged in",
                                    None, <<>>, <<>>)
         /\ UNCHANGED <<CURRENT_ORDERS, CURRENT_USER>>

\* POST /login_user.  data: the JSON body, or EmptyDict when there is none
login(key, data) ==
    LET email == Strip(IF "email" \in DOMAIN data THEN data["email"] ELSE "")
        password == IF "password" \in DOMAIN data THEN data["password"] ELSE ""
    IN
    IF email = "" \/ password = ""
    THEN /\ http_response' = Answer("login", key, 400,
                                    "Email / Password is missing.",
                                    None, <<data>>, <<>>)
         /\ UNCHANGED <<CURRENT_ORDERS, CURRENT_USER>>
    ELSE IF ~EmailFormatOk(email)
    THEN /\ http_response' = Answer("login", key, 400, "Invalid email format.",
                                    None, <<data>>, <<>>)
         /\ UNCHANGED <<CURRENT_ORDERS, CURRENT_USER>>
    ELSE /\ CURRENT_USER' = <<[email |-> email, password |-> password]>>
         /\ http_response' = Answer("login", key, 200, None, None, <<data>>,
                                    <<>>)
         /\ UNCHANGED CURRENT_ORDERS

\* GET /api/orders
get_orders(key) ==
    LET user == get_current_user(CURRENT_USER) IN
    /\ http_response' =
         IF user = <<>>
         THEN Answer("get_orders", key, 401, "No user logged in", None, <<>>,
                     <<>>)
         ELSE Answer("get_orders", key, 200, None, None, <<>>,
                     get_orders_for_user(CURRENT_ORDERS, user[1].email))
    /\ UNCHANGED <<CURRENT_ORDERS, CURRENT_USER>>

\* GET /order/status?order_id=
get_order_status(key, order_id) ==
    LET user == get_current_user(CURRENT_USER)
        order == find_order_for_user(CURRENT_ORDERS, user[1].email, order_id)
        R(status, error, body) ==
            Answer("get_order_status", key, status, error, order_id, <<>>, body)
    IN
    /\ http_response' =
         IF order_id = None \/ order_id = ""
         THEN R(400, "Missing order_id parameter", <<>>)
         ELSE IF user = <<>> THEN R(401, "No user logged in", <<>>)
         ELSE IF order = <<>> THEN R(404, "Order not found", <<>>)
         \* order['status'] raises KeyError for an order without a status
         ELSE IF "status" \notin DOMAIN order[1]
         THEN R(500, "Internal server error", <<>>)
         ELSE R(200, None, <<[status |-> order[1]["status"]]>>)
    /\ UNCHANGED <<CURRENT_ORDERS, CURRENT_USER>>

\* POST /order/update-shipping.  data: <<>> for a body get_json raises on,
\* else <<the JSON object>>
update_shipping_address(key, data) ==
    LET user == get_current_user(CURRENT_USER)
        R(status, error) ==
            Answer("update_shipping_address", key, status, error,
                   IF data # <<>> /\ "order_id" \in DOMAIN data[1]
                   THEN Strip(data[1]["order_id"]) ELSE None,
                   data, <<>>)
        new_address == Strip(data[1]["shipping_address"])
        order_id == Strip(IF "order_id" \in DOMAIN data[1]
                          THEN data[1]["order_id"] ELSE "")
    IN
    IF user = <<>>
    THEN /\ http_response' = R(401, "No user logged in")
         /\ UNCHANGED <<CURRENT_ORDERS, CURRENT_USER>>
    ELSE IF data = <<>>
    THEN /\ http_response' = R(500, "Internal server error")
         /\ UNCHANGED <<CURRENT_ORDERS, CURRENT_USER>>
    ELSE IF data[1] = EmptyDict \/ "shipping_address" \notin DOMAIN data[1]
    THEN /\ http_response' = R(400, "Missing shipping_address in request")
         /\ UNCHANGED <<CURRENT_ORDERS, CURRENT_USER>>
    ELSE IF new_address = ""
    THEN /\ http_response' = R(400, "Shipping address cannot be empty")
         /\ UNCHANGED <<CURRENT_ORDERS, CURRENT_USER>>
    ELSE IF order_id = ""
    THEN /\ http_response' = R(400, "Missing order_id in request")
         /\ UNCHANGED <<CURRENT_ORDERS, CURRENT_USER>>
    ELSE IF find_order_for_user(CURRENT_ORDERS, user[1].email, order_id) = <<>>
    THEN /\ http_response' = R(404, "Order not found")
         /\ UNCHANGED <<CURRENT_ORDERS, CURRENT_USER>>
    ELSE /\ CURRENT_ORDERS' =
               update_order_for_user(CURRENT_ORDERS, user[1].email, order_id,
                                     [shipping_address |-> new_address])
         /\ http_response' =
               IF update_order_for_user_result(CURRENT_ORDERS, user[1].email,
                                               order_id)
               THEN R(200, None)
               ELSE R(500, "Failed to update shipping address")
         /\ UNCHANGED CURRENT_USER

\* A put_order that always takes the recomputed total
put_order_new_order_recomputed(order_id, payload) ==
    DictSet(DictSet(recalc_order_total_effect(payload), "id", order_id),
            "order_total", recalc_order_total(payload))

\* A new_order that keeps the id of a payload that has one
put_order_new_order_payload_id(order_id, payload) ==
    LET with_id == IF "id" \in DOMAIN payload
                   THEN recalc_order_total_effect(payload)
                   ELSE DictSet(recalc_order_total_effect(payload), "id",
                                order_id)
    IN IF "order_total" \notin DOMAIN payload
       THEN DictSet(with_id, "order_total", recalc_order_total(payload))
       ELSE with_id

\* The new_order put_order builds from the payload: the id is the URL's,
\* the subtotals are recomputed, the total only when the payload has none
put_order_new_order(order_id, payload) ==
    LET with_id == DictSet(recalc_order_total_effect(payload), "id", order_id)
    IN IF "order_total" \notin DOMAIN payload
       THEN DictSet(with_id, "order_total", recalc_order_total(payload))
       ELSE with_id

\* A JSON value that is no object
NotAnObject == [notobj |-> TRUE]

\* PUT /order/put_order/<order_id>.  payload: <<>> when get_json(silent=True)
\* gives None, else <<the JSON value>>.  An order_total is a number of cents.

put_order(key, order_id, payload) ==
    LET user == get_current_user(CURRENT_USER)
        R(status, error, body) ==
            Answer("put_order", key, status, error, order_id, payload, body)
        new_order == put_order_new_order(order_id, payload[1])
        store == update_order_for_user(CURRENT_ORDERS, user[1].email, order_id,
                                       new_order)
    IN
    IF user = <<>>
    THEN /\ http_response' = R(401, "No user logged in", <<>>)
         /\ UNCHANGED <<CURRENT_ORDERS, CURRENT_USER>>
    ELSE IF payload = <<>> \/ payload[1] = EmptyDict
            \/ payload[1] = NotAnObject
    THEN /\ http_response' = R(400, "JSON object required", <<>>)
         /\ UNCHANGED <<CURRENT_ORDERS, CURRENT_USER>>
    ELSE IF "items" \notin DOMAIN payload[1]
    THEN /\ http_response' =
               R(400, "items (list) required for full replace", <<>>)
         /\ UNCHANGED <<CURRENT_ORDERS, CURRENT_USER>>
    ELSE IF find_order_for_user(CURRENT_ORDERS, user[1].email, order_id) = <<>>
    THEN /\ http_response' = R(404, "Order not found", <<>>)
         /\ UNCHANGED <<CURRENT_ORDERS, CURRENT_USER>>
    \* recalc_order_total raises, and nothing catches it
    ELSE IF recalc_order_total_raises(payload[1])
    THEN /\ http_response' = R(500, None, <<>>)
         /\ UNCHANGED <<CURRENT_ORDERS, CURRENT_USER>>
    ELSE /\ CURRENT_ORDERS' = store
         /\ http_response' =
               IF update_order_for_user_result(CURRENT_ORDERS, user[1].email,
                                               order_id)
               THEN R(200, None,
                      find_order_for_user(store, user[1].email, order_id))
               ELSE R(500, "Failed to replace order", <<>>)
         /\ UNCHANGED CURRENT_USER

\* A quantity sent as a numeric string ("3" is NumStr(6), in halves)
NumStr(k) == [t |-> "numstr", v |-> k]

\* A quantity float() turns into inf: 1e999, "inf"
Inf == [t |-> "inf", v |-> 0]

\* The quote get_bulk_order_quote gives for the processed items
get_bulk_order_quote(processed_items) == [quote |-> processed_items]

\* quantity = int(qty_num), on a positive quantity in halves
BulkInt(x) == x.v \div 2

\* The loop of calculate_bulk_order from entry idx (1-based here, the
\* reported index is 0-based) and what follows it: the status, the error
\* and what the error names, or the quote
RECURSIVE BulkScan(_, _, _)
BulkScan(items, idx, processed) ==
    IF idx > Len(items)
    THEN IF processed = <<>>
         THEN [status |-> 400, error |-> "No valid items provided",
               body |-> <<>>]
         ELSE [status |-> 200, error |-> None,
               body |-> <<get_bulk_order_quote(processed)>>]
    ELSE LET item == items[idx] IN
         IF "notobj" \in DOMAIN item
         THEN [status |-> 400, error |-> "Item at index must be an object",
               body |-> <<[idx |-> idx - 1]>>]
         ELSE IF "name" \notin DOMAIN item \/ Strip(item["name"]) = ""
         THEN [status |-> 400,
               error |-> "Invalid or missing name for item at index",
               body |-> <<[idx |-> idx - 1]>>]
         \* raw_qty is None, or float(raw_qty) raises ValueError
         ELSE IF "quantity" \notin DOMAIN item \/ item["quantity"].t = "null"
                 \/ item["quantity"].t = "str"
         THEN [status |-> 400, error |-> "Invalid quantity for item",
               body |-> <<[name |-> item["name"]]>>]
         ELSE IF item["quantity"].t # "inf" /\ item["quantity"].v <= 0
         THEN [status |-> 400,
               error |-> "Quantity must be a positive number for item",
               body |-> <<[name |-> item["name"]]>>]
         \* int(inf) raises OverflowError, which only the outer except catches
         ELSE IF item["quantity"].t = "inf"
         THEN [status |-> 500, error |-> "Internal server error",
               body |-> <<>>]
         ELSE BulkScan(items, idx + 1,
                  Append(processed, [name |-> Strip(item["name"]),
                                     quantity |-> BulkInt(item["quantity"])]))

\* POST /order/calculate-bulk.  data: <<>> when get_json(silent=True) gives
\* None, else <<the JSON object>>
calculate_bulk_order(key, data) ==
    LET R(status, error, body) ==
            Answer("calculate_bulk_order", key, status, error, None, data, body)
        scan == BulkScan(data[1]["items"], 1, <<>>)
    IN
    /\ http_response' =
         IF data = <<>> \/ data[1] = EmptyDict \/ "items" \notin DOMAIN data[1]
         THEN R(400, "Missing items list in request", <<>>)
         ELSE R(scan.status, scan.error, scan.body)
    /\ UNCHANGED <<CURRENT_ORDERS, CURRENT_USER>>

----------------------------------------------------------------------------
(* The routes of main.py under requests in any order *)

\* An order of the initial configuration
InitialOrder(id) ==
    [id |-> id, status |-> "Processing", shipping_address |-> "old",
     items |-> <<[price |-> Num(450), quantity |-> Num(4), subtotal |-> 900]>>,
     order_total |-> 900]

\* The stores the ORDERS configuration may load
InitialStores ==
    { ("anto.sf3688@gmail.com" :> <<InitialOrder("ORD1"), InitialOrder("ORD2")>>),
      ("anto.sf3688@gmail.com" :> <<InitialOrder("ORD1")>>)
         @@ ("b@example.com" :> <<InitialOrder("ORD2")>>) }

LoginBodies ==
    {EmptyDict}
        \cup [email : {"anto.sf3688@gmail.com", " b@example.com ", "nobody"},
              password : {"pw", ""}]

StatusOrderIds == {"ORD1", "ORD2", None}

ShippingBodies ==
    {<<>>, <<EmptyDict>>, <<[order_id |-> "ORD1"]>>,
     <<[shipping_address |-> "1 Main St"]>>}
        \cup { <<b>> : b \in [shipping_address : {"1 Main St", "  "},
                              order_id : {" ORD1 ", "ORD9"}] }

PutOrderIds == {"ORD1", "ORD9"}

\* Two lines, the first with the quantity 1.5, the second without a price
PutLines == <<[price |-> Num(450), quantity |-> Num(3)], [quantity |-> Num(4)]>>

PutPayloads ==
    {<<>>, <<EmptyDict>>, <<NotAnObject>>, <<[status |-> "Shipped"]>>,
     <<[items |-> <<>>]>>,
     <<[items |-> <<[price |-> Num(450), quantity |-> Str]>>]>>,
     <<[items |-> PutLines]>>,
     <<[items |-> PutLines, order_total |-> 1, id |-> "ORD9"]>>}

HttpBulkBodies ==
    {<<>>, <<[items |-> <<[name |-> "Coffee", quantity |-> Num(4)]>>]>>,
     <<[items |-> <<[name |-> "  ", quantity |-> Num(4)]>>]>>}

\* What is enumerated of a request the key check turns away
Behind(key, inputs) == IF is_valid_api_key(key) THEN inputs ELSE {<<>>}

HttpInit ==
    /\ McpIdle
    /\ SideIdle
    /\ call = NoCall
    /\ CURRENT_ORDERS \in InitialStores
    /\ CURRENT_USER = <<>>
    /\ http_response = [route |-> "none"]

GetItemsStep ==
    /\ \E key \in Keys : require_api_key("get_items", key, get_items(key))
    /\ UNCHANGED <<side_vars, mcp_vars, call>>

LogoutStep ==
    /\ \E key \in Keys : require_api_key("logout", key, logout(key))
    /\ UNCHANGED <<side_vars, mcp_vars, call>>

LoginStep ==
    /\ \E key \in Keys : \E data \in Behind(key, LoginBodies) :
          require_api_key("login", key, login(key, data))
    /\ UNCHANGED <<side_vars, mcp_vars, call>>

GetOrdersStep ==
    /\ \E key \in Keys : require_api_key("get_orders", key, get_orders(key))
    /\ UNCHANGED <<side_vars, mcp_vars, call>>

GetOrderStatusStep ==
    /\ \E key \in Keys : \E order_id \in Behind(key, StatusOrderIds) :
          require_api_key("get_order_status", key,
                          get_order_status(key, order_id))
    /\ UNCHANGED <<side_vars, mcp_vars, call>>

CalculateBulkOrderStep ==
    /\ \E key \in Keys : \E data \in Behind(key, HttpBulkBodies) :
          require_api_key("calculate_bulk_order", key,
                          calculate_bulk_order(key, data))
    /\ UNCHANGED <<side_vars, mcp_vars, call>>

UpdateShippingAddressStep ==
    /\ \E key \in Keys : \E data \in Behind(key, ShippingBodies) :
          require_api_key("update_shipping_address", key,
                          update_shipping_address(key, data))
    /\ UNCHANGED <<side_vars, mcp_vars, call>>

PutOrderStep ==
    /\ \E key \in Keys : \E order_id \in Behind(key, PutOrderIds) :
          \E payload \in Behind(key, PutPayloads) :
             require_api_key("put_order", key,
                             put_order(key, order_id, payload))
    /\ UNCHANGED <<side_vars, mcp_vars, call>>

HttpNext ==
    \/ GetItemsStep
    \/ LogoutStep
    \/ LoginStep
    \/ GetOrdersStep
    \/ GetOrderStatusStep
    \/ CalculateBulkOrderStep
    \/ UpdateShippingAddressStep
    \/ PutOrderStep

SpecHttp == HttpInit /\ [][HttpNext]_vars

----------------------------------------------------------------------------
(* calculate_bulk_order on one request *)

MaxItems == 2

BulkNames == {"Coffee", " Tea ", "  "}

BulkQuantities == {Num(4), Num(1), Num(0), NumStr(6), Str, Inf}

BulkEntries ==
    {NotAnObject}
        \cup [name : BulkNames, quantity : BulkQuantities]
        \cup [name : BulkNames] \cup [quantity : BulkQuantities]

BulkLists(n) == UNION { [1..k -> BulkEntries] : k \in 0..n }

BulkBodies ==
    {<<>>, <<EmptyDict>>} \cup { <<[items |-> l]>> : l \in BulkLists(MaxItems) }

\* The request is drawn at the start and answered in one step
BulkInit ==
    /\ McpIdle
    /\ SideIdle
    /\ call = NoCall
    /\ CURRENT_ORDERS \in InitialStores
    /\ CURRENT_USER = <<>>
    /\ \E key \in Keys : \E data \in Behind(key, BulkBodies) :
          http_response = [route |-> "pending", key |-> key, payload |-> data]

BulkStep ==
    /\ http_response.route = "pending"
    /\ require_api_key("calculate_bulk_order", http_response.key,
                       calculate_bulk_order(http_response.key,
                                            http_response.payload))
    /\ UNCHANGED <<side_vars, mcp_vars, call>>

BulkNext == BulkStep

SpecBulk == BulkInit /\ [][BulkNext]_vars

----------------------------------------------------------------------------
(* recalc_order_total called directly *)

\* Prices: absent, null, 4.50, 10.00
PriceInputs == {Null, Num(450), Num(1000)}

\* Quantities: absent, null, 2, 1.5, -1.5, and a string that is no number
QuantityInputs == {Null, Num(4), Num(3), Num(-3), Str}

LineItemInputs ==
    [price : PriceInputs, quantity : QuantityInputs]
    \cup [price : PriceInputs] \cup [quantity : QuantityInputs]
    \cup {[price |-> Num(450), quantity |-> Num(4), subtotal |-> 1]}

\* Orders with at most n line items, and an order without an items field
RecalcOrders(n) ==
    {[id |-> "ORD1", items |-> items] :
        items \in UNION {[1..k -> LineItemInputs] : k \in 0..n}}
    \cup {[id |-> "ORD1"]}

\* The order recalc_order_total is about to be called with
RecalcInit ==
    /\ McpIdle
    /\ SideIdle
    /\ AppIdle
    /\ \E order \in RecalcOrders(MaxLines) :
          call = [fn |-> "pending", arg |-> <<order>>]

RecalcCall ==
    /\ call.fn = "pending"
    /\ LET order == call.arg[1] IN
          call' = [fn |-> "recalc_order_total", arg |-> <<order>>,
                   ok |-> ~recalc_order_total_raises(order),
                   total |-> IF recalc_order_total_raises(order) THEN 0
                             ELSE recalc_order_total(order),
                   out |-> IF recalc_order_total_raises(order) THEN <<>>
                           ELSE <<recalc_order_total_effect(order)>>]
    /\ UNCHANGED <<side_vars, mcp_vars, app_vars>>

RecalcNext == RecalcCall

SpecRecalc == RecalcInit /\ [][RecalcNext]_vars

----------------------------------------------------------------------------
(* The order store as Python objects.  memory.objs is the heap, an object's *)
(* address its index; memory.orders is the dict _CURRENT_ORDERS refers to;  *)
(* memory.held is the object the caller of the store holds, if any: what it *)
(* built and passed in, or got back last.  Objects nothing refers to any    *)
(* more are freed.  An object is the dict email -> list                     *)
(* ("map", its refs the lists, each tagged with its email), a list of       *)
(* orders ("list"), an order dict ("order", tagged with its id, its refs    *)
(* the value of its items field when it has one) or a list of line items    *)
(* ("items", qty standing for its content).                                 *)

\* How many objects are alive at most
MaxObjects == 8

\* The user whose orders are stored
MemEmails == {"anto.sf3688@gmail.com"}

\* The ids of the orders stored and looked up
MemOrderIds == {"ORD1"}

Obj(kind, tag, qty, refs) ==
    [kind |-> kind, tag |-> tag, qty |-> qty, refs |-> refs]

\* A copy.copy in deepcopy's place: a new top object with the old children
deepcopy_toplevel(objs, a) == [objs |-> Append(objs, objs[a]), at |-> Len(objs) + 1]

\* copy.deepcopy(objs[a]): the heap with the copy in it and the copy's address
RECURSIVE deepcopy(_, _), CopyKids(_, _, _, _)
deepcopy(objs, a) ==
    LET kids == CopyKids(objs, objs[a].refs, 1, <<>>)
    IN [objs |-> Append(kids.objs, [objs[a] EXCEPT !.refs = kids.refs]),
        at |-> Len(kids.objs) + 1]

CopyKids(objs, refs, i, acc) ==
    IF i > Len(refs) THEN [objs |-> objs, refs |-> acc]
    ELSE LET c == deepcopy(objs, refs[i])
         IN CopyKids(c.objs, refs, i + 1, Append(acc, c.at))

\* The position of the first child of a with the tag, 0 when none has it:
\* _CURRENT_ORDERS.get(email), and the for loop over o.get("id")
FirstTagged(objs, a, tag) ==
    IF \E i \in 1..Len(objs[a].refs) : objs[objs[a].refs[i]].tag = tag
    THEN CHOOSE i \in 1..Len(objs[a].refs) :
            /\ objs[objs[a].refs[i]].tag = tag
            /\ \A j \in 1..(i - 1) : objs[objs[a].refs[j]].tag # tag
    ELSE 0

\* The list stored for the email, 0 when there is none
UserList(m, email) ==
    LET i == FirstTagged(m.objs, m.orders, email)
    IN IF i = 0 THEN 0 ELSE m.objs[m.orders].refs[i]

\* set_current_orders(orders_map)
mem_set_current_orders(m, orders_map) ==
    LET c == deepcopy(m.objs, orders_map)
    IN [m EXCEPT !.objs = c.objs, !.orders = c.at]

\* get_current_orders()
mem_get_current_orders(m) ==
    LET c == deepcopy(m.objs, m.orders)
    IN [m EXCEPT !.objs = c.objs, !.held = {c.at}]

\* get_orders_for_user(email): a copy of the list, or of the default []
mem_get_orders_for_user(m, email) ==
    LET lst == UserList(m, email)
        with_default == Append(m.objs, Obj("list", "", 0, <<>>))
        c == IF lst = 0 THEN deepcopy(with_default, Len(with_default))
             ELSE deepcopy(m.objs, lst)
    IN [m EXCEPT !.objs = c.objs, !.held = {c.at}]

\* set_orders_for_user(email, orders)
mem_set_orders_for_user(m, email, orders) ==
    LET c == deepcopy(m.objs, orders)
        i == FirstTagged(m.objs, m.orders, email)
        stored == [c.objs EXCEPT ![c.at].tag = email]
    IN [m EXCEPT !.objs =
          [stored EXCEPT ![m.orders].refs =
              IF i = 0 THEN Append(@, c.at) ELSE [@ EXCEPT ![i] = c.at]]]

\* add_order_for_user(email, order)
mem_add_order_for_user(m, email, order) ==
    LET lst == UserList(m, email)
        \* setdefault(email, [])
        objs1 == IF lst # 0 THEN m.objs
                 ELSE [Append(m.objs, Obj("list", email, 0, <<>>))
                          EXCEPT ![m.orders].refs = Append(@, Len(m.objs) + 1)]
        lst1 == IF lst # 0 THEN lst ELSE Len(m.objs) + 1
        c == deepcopy(objs1, order)
    IN [m EXCEPT !.objs = [c.objs EXCEPT ![lst1].refs = Append(@, c.at)]]

\* find_order_for_user(email, order_id): a copy of the order, or None
mem_find_order_for_user(m, email, order_id) ==
    LET lst == UserList(m, email)
        i == IF lst = 0 THEN 0 ELSE FirstTagged(m.objs, lst, order_id)
        c == deepcopy(m.objs, m.objs[lst].refs[i])
    IN IF i = 0 THEN m
       ELSE [m EXCEPT !.objs = c.objs, !.held = {c.at}]

\* update_order_for_user(email, order_id, updates): updated = dict(o) is a
\* new dict with o's field values, updated.update(updates) gives it those of
\* the updates, and a deep copy of it takes o's place
mem_update_order_for_user(m, email, order_id, updates) ==
    LET lst == UserList(m, email)
        i == IF lst = 0 THEN 0 ELSE FirstTagged(m.objs, lst, order_id)
        o == m.objs[m.objs[lst].refs[i]]
        u == m.objs[updates]
        updated == Obj("order",
                       IF u.tag # "" THEN u.tag ELSE o.tag, 0,
                       IF u.refs # <<>> THEN u.refs ELSE o.refs)
        objs1 == Append(m.objs, updated)
        c == deepcopy(objs1, Len(objs1))
    IN IF i = 0 THEN m
       ELSE [m EXCEPT !.objs = [c.objs EXCEPT ![lst].refs[i] = c.at]]

\* The objects reachable from a set of objects
RECURSIVE Reach(_, _)
Reach(objs, as) ==
    LET more == as \cup UNION { { objs[a].refs[i] : i \in 1..Len(objs[a].refs) } :
                                a \in as }
    IN IF more = as THEN as ELSE Reach(objs, more)

\* The value of an object: what a reader of it sees, addresses left out
RECURSIVE Value(_, _)
Value(objs, a) ==
    [kind |-> objs[a].kind, tag |-> objs[a].tag, qty |-> objs[a].qty,
     kids |-> [i \in 1..Len(objs[a].refs) |-> Value(objs, objs[a].refs[i])]]

\* What a caller does to an object it can reach: it clears a dict or a list
\* of orders, gives an order another id, changes a list of line items
Mutated(obj) ==
    CASE obj.kind = "order" -> [obj EXCEPT !.tag = "ORD9"]
      [] obj.kind = "items" -> [obj EXCEPT !.qty = 9]
      [] OTHER -> [obj EXCEPT !.refs = <<>>]

HeldOfKind(m, kind) == { a \in m.held : m.objs[a].kind = kind }

\* The objects reachable from those on the stack, each once, parents first
RECURSIVE Visit(_, _, _)
Visit(objs, stack, out) ==
    IF stack = <<>> THEN out
    ELSE IF \E n \in 1..Len(out) : out[n] = Head(stack)
    THEN Visit(objs, Tail(stack), out)
    ELSE Visit(objs, objs[Head(stack)].refs \o Tail(stack),
               Append(out, Head(stack)))

\* The memory without the objects that neither the store nor the caller can
\* reach, the store's objects first
Freed(m) ==
    LET held == IF m.held = {} THEN <<>> ELSE <<CHOOSE a \in m.held : TRUE>>
        live == Visit(m.objs, <<m.orders>> \o held, <<>>)
        At(a) == CHOOSE n \in 1..Len(live) : live[n] = a
    IN [objs |-> [n \in 1..Len(live) |->
                    [m.objs[live[n]] EXCEPT !.refs =
                        [i \in 1..Len(@) |-> At(@[i])]]],
        orders |-> At(m.orders),
        held |-> { At(a) : a \in m.held }]

AliasInit ==
    /\ McpIdle
    /\ AppIdle
    /\ threads = <<>>
    /\ call = NoCall
    /\ memory = [objs |-> <<Obj("map", "", 0, <<>>)>>, orders |-> 1,
                 held |-> {}]

\* The effect of a step of the store's callers on the memory
MemStep(fn, m) ==
    /\ Len(Freed(m).objs) <= MaxObjects
    /\ memory' = Freed(m)
    /\ call' = [fn |-> fn]

\* A caller builds an order with a list of line items, or an order with an
\* id alone
CallerNewOrder ==
    /\ \E id \in MemOrderIds, with_items \in BOOLEAN :
           LET n == Len(memory.objs)
               objs == IF with_items
                       THEN memory.objs \o <<Obj("items", "", 1, <<>>),
                                             Obj("order", id, 0, <<n + 1>>)>>
                       ELSE Append(memory.objs, Obj("order", id, 0, <<>>))
           IN MemStep("new_order",
                      [memory EXCEPT !.objs = objs, !.held = {Len(objs)}])
    /\ UNCHANGED <<mcp_vars, app_vars, threads>>

\* A caller builds a list of one order it holds
CallerNewList ==
    /\ \E o \in HeldOfKind(memory, "order") :
           MemStep("new_list",
                   [memory EXCEPT !.objs = Append(@, Obj("list", "", 0, <<o>>)),
                                  !.held = {Len(memory.objs) + 1}])
    /\ UNCHANGED <<mcp_vars, app_vars, threads>>

\* A caller changes an object it holds or can reach from one it holds
CallerMutate ==
    /\ \E a \in Reach(memory.objs, memory.held) :
           /\ Mutated(memory.objs[a]) # memory.objs[a]
           /\ MemStep("mutate", [memory EXCEPT !.objs[a] = Mutated(@)])
    /\ UNCHANGED <<mcp_vars, app_vars, threads>>

\* A caller lets go of what it holds
CallerDrop ==
    /\ memory.held # {}
    /\ MemStep("drop", [memory EXCEPT !.held = {}])
    /\ UNCHANGED <<mcp_vars, app_vars, threads>>

SetCurrentOrdersMem ==
    /\ \E orders_map \in HeldOfKind(memory, "map") :
           MemStep("set_current_orders", mem_set_current_orders(memory, orders_map))
    /\ UNCHANGED <<mcp_vars, app_vars, threads>>

GetCurrentOrdersMem ==
    /\ MemStep("get_current_orders", mem_get_current_orders(memory))
    /\ UNCHANGED <<mcp_vars, app_vars, threads>>

GetOrdersMem ==
    /\ \E email \in MemEmails :
           MemStep("get_orders_for_user", mem_get_orders_for_user(memory, email))
    /\ UNCHANGED <<mcp_vars, app_vars, threads>>

SetOrdersMem ==
    /\ \E email \in MemEmails, orders \in HeldOfKind(memory, "list") :
           MemStep("set_orders_for_user",
                   mem_set_orders_for_user(memory, email, orders))
    /\ UNCHANGED <<mcp_vars, app_vars, threads>>

AddOrderMem ==
    /\ \E email \in MemEmails, order \in HeldOfKind(memory, "order") :
           MemStep("add_order_for_user",
                   mem_add_order_for_user(memory, email, order))
    /\ UNCHANGED <<mcp_vars, app_vars, threads>>

FindOrderMem ==
    /\ \E email \in MemEmails, order_id \in MemOrderIds :
           MemStep("find_order_for_user",
                   mem_find_order_for_user(memory, email, order_id))
    /\ UNCHANGED <<mcp_vars, app_vars, threads>>

UpdateOrderMem ==
    /\ \E email \in MemEmails, order_id \in MemOrderIds,
          updates \in HeldOfKind(memory, "order") :
           MemStep("update_order_for_user",
                   mem_update_order_for_user(memory, email, order_id, updates))
    /\ UNCHANGED <<mcp_vars, app_vars, threads>>

AliasNext ==
    \/ CallerNewOrder
    \/ CallerNewList
    \/ CallerMutate
    \/ CallerDrop
    \/ SetCurrentOrdersMem
    \/ GetCurrentOrdersMem
    \/ GetOrdersMem
    \/ SetOrdersMem
    \/ AddOrderMem
    \/ FindOrderMem
    \/ UpdateOrderMem

SpecAlias == AliasInit /\ [][AliasNext]_vars

----------------------------------------------------------------------------
(* Concurrent /mcp requests of mcp_blueprint_new.py on one session id.  The *)
(* server runs each request in a thread of its own; the file takes no lock, *)
(* so the threads interleave between the statements of validate_session,    *)
(* session_close and session_open.  A thread's local variable session       *)
(* refers to the dict that was registered when it read it: att says that    *)
(* this dict is still the registered one, and obj is the dict once it is    *)
(* not.  result is what the call gave: "true"/"false" for validate_session, *)
(* "200"/"404" for the other two, "KeyError" for the exception that         *)
(* handle_errors turns into a 500.                                          *)

\* How many requests run at the same time
MaxThreads == 2

ConcThreads == 1..MaxThreads

\* The session id all the requests name
ConcSid == "s1"

IdleThread ==
    [op |-> "none", pc |-> "idle", att |-> FALSE, obj |-> NewSession(0),
     current_time |-> 0, tmp |-> 0, result |-> "none"]

\* The dict a thread's variable session refers to
SessionOf(t) ==
    IF threads[t].att THEN active_sessions[ConcSid] ELSE threads[t].obj

\* The threads once the registered dict is unregistered: those that refer
\* to it keep it
Detached(ths) ==
    [u \in DOMAIN ths |->
        IF ths[u].att
        THEN [ths[u] EXCEPT !.att = FALSE, !.obj = active_sessions[ConcSid]]
        ELSE ths[u]]

\* A thread ends its call
Return(ths, t, result) == [ths EXCEPT ![t].pc = "done", ![t].result = result]

\* session[field] = value, then on to the statement at pc
SetSessionField(t, field, value, pc) ==
    IF threads[t].att
    THEN /\ active_sessions' =
               [active_sessions EXCEPT ![ConcSid][field] = value]
         /\ threads' = [threads EXCEPT ![t].pc = pc]
    ELSE /\ threads' = [threads EXCEPT ![t].obj[field] = value, ![t].pc = pc]
         /\ UNCHANGED active_sessions

\* del active_sessions[session_id], then return result
DelSession(t, result) ==
    IF ConcSid \notin DOMAIN active_sessions
    THEN /\ threads' = Return(threads, t, "KeyError")
         /\ UNCHANGED active_sessions
    ELSE /\ active_sessions' = DictDel(active_sessions, ConcSid)
         /\ threads' = Return(Detached(threads), t, result)

ConcFrame ==
    UNCHANGED <<variant, now, ticks, mcp_response, opened, last_ok, app_vars,
                call, memory>>

\* The session was opened at time 0 and has taken no request or all but one
\* of a window's requests; the clock stands within the window, past it, or
\* past the session timeout
ConcInit ==
    /\ variant = "new"
    /\ now \in {0, RATE_LIMIT_WINDOW, SESSION_TIMEOUT + 1}
    /\ ticks = 0
    /\ mcp_response = Response("none", None, None, None, 0, None, "none")
    /\ opened = {ConcSid}
    /\ last_ok = [s \in SessionIdInputs |-> 0]
    /\ AppIdle
    /\ call = NoCall
    /\ memory = [objs |-> <<>>, orders |-> 0, held |-> {}]
    /\ \E count \in {0, MAX_REQUESTS_PER_MINUTE - 1} :
          active_sessions =
             DictSet(EmptyDict, ConcSid,
                     [NewSession(0) EXCEPT !.request_count = count])
    /\ threads = [t \in ConcThreads |-> IdleThread]

\* A request arrives: context/request or tool/run calls validate_session,
\* session/close and session/open run their own statements
StartRequest(t) ==
    /\ threads[t].pc = "idle"
    /\ \E op \in {"validate_session", "session_close", "session_open"} :
          threads' = [threads EXCEPT ![t].op = op,
                         ![t].pc = CASE op = "validate_session" -> "v_in"
                                     [] op = "session_close" -> "c_in"
                                     [] OTHER -> "o_set"]
    /\ UNCHANGED active_sessions
    /\ ConcFrame

\* if session_id not in active_sessions: return False
ValidateIn(t) ==
    /\ threads[t].pc = "v_in"
    /\ threads' = IF ConcSid \notin DOMAIN active_sessions
                  THEN Return(threads, t, "false")
                  ELSE [threads EXCEPT ![t].pc = "v_get"]
    /\ UNCHANGED active_sessions
    /\ ConcFrame

\* session = active_sessions[session_id]; current_time = time.time()
ValidateGet(t) ==
    /\ threads[t].pc = "v_get"
    /\ threads' = IF ConcSid \notin DOMAIN active_sessions
                  THEN Return(threads, t, "KeyError")
                  ELSE [threads EXCEPT ![t].att = TRUE,
                                       ![t].current_time = now,
                                       ![t].pc = "v_timeout"]
    /\ UNCHANGED active_sessions
    /\ ConcFrame

\* if current_time - session['timestamp'] > SESSION_TIMEOUT:
ValidateTimeout(t) ==
    /\ threads[t].pc = "v_timeout"
    /\ threads' = [threads EXCEPT ![t].pc =
                      IF threads[t].current_time - SessionOf(t).timestamp
                            > SESSION_TIMEOUT
                      THEN "v_del" ELSE "v_window"]
    /\ UNCHANGED active_sessions
    /\ ConcFrame

\* del active_sessions[session_id]; return False
ValidateDel(t) ==
    /\ threads[t].pc = "v_del"
    /\ DelSession(t, "false")
    /\ ConcFrame

\* if current_time - session['last_request'] < RATE_LIMIT_WINDOW:
\*     if session['request_count'] >= MAX_REQUESTS_PER_MINUTE: return False
\* else: session['request_count'] = 0
ValidateWindow(t) ==
    /\ threads[t].pc = "v_window"
    /\ IF threads[t].current_time - SessionOf(t).last_request
             < RATE_LIMIT_WINDOW
       THEN /\ threads' =
                  IF SessionOf(t).request_count >= MAX_REQUESTS_PER_MINUTE
                  THEN Return(threads, t, "false")
                  ELSE [threads EXCEPT ![t].pc = "v_timestamp"]
            /\ UNCHANGED active_sessions
       ELSE SetSessionField(t, "request_count", 0, "v_timestamp")
    /\ ConcFrame

\* session['timestamp'] = current_time
ValidateTimestamp(t) ==
    /\ threads[t].pc = "v_timestamp"
    /\ SetSessionField(t, "timestamp", threads[t].current_time, "v_last")
    /\ ConcFrame

\* session['last_request'] = current_time
ValidateLastRequest(t) ==
    /\ threads[t].pc = "v_last"
    /\ SetSessionField(t, "last_request", threads[t].current_time, "v_read")
    /\ ConcFrame

\* session['request_count'] += 1, the read of the old value
ValidateRead(t) ==
    /\ threads[t].pc = "v_read"
    /\ threads' = [threads EXCEPT ![t].tmp = SessionOf(t).request_count,
                                  ![t].pc = "v_write"]
    /\ UNCHANGED active_sessions
    /\ ConcFrame

\* session['request_count'] += 1, the store of the sum; return True
ValidateWrite(t) ==
    /\ threads[t].pc = "v_write"
    /\ IF threads[t].att
       THEN /\ active_sessions' =
                  [active_sessions EXCEPT ![ConcSid].request_count =
                                             threads[t].tmp + 1]
            /\ threads' = Return(threads, t, "true")
       ELSE /\ threads' = Return([threads EXCEPT ![t].obj.request_count =
                                                    threads[t].tmp + 1],
                                 t, "true")
            /\ UNCHANGED active_sessions
    /\ ConcFrame

\* session_close: if session_id in active_sessions:
CloseIn(t) ==
    /\ threads[t].pc = "c_in"
    /\ threads' = IF ConcSid \in DOMAIN active_sessions
                  THEN [threads EXCEPT ![t].pc = "c_del"]
                  ELSE Return(threads, t, "404")
    /\ UNCHANGED active_sessions
    /\ ConcFrame

\* session_close: del active_sessions[session_id]; return 200
CloseDel(t) ==
    /\ threads[t].pc = "c_del"
    /\ DelSession(t, "200")
    /\ ConcFrame

\* session_open: active_sessions[session_id] = {...}; return 200
OpenSet(t) ==
    /\ threads[t].pc = "o_set"
    /\ active_sessions' = DictSet(active_sessions, ConcSid, NewSession(now))
    /\ threads' = Return(IF ConcSid \in DOMAIN active_sessions
                         THEN Detached(threads) ELSE threads, t, "200")
    /\ ConcFrame

ConcNext ==
    \E t \in ConcThreads :
        \/ StartRequest(t)
        \/ ValidateIn(t)
        \/ ValidateGet(t)
        \/ ValidateTimeout(t)
        \/ ValidateDel(t)
        \/ ValidateWindow(t)
        \/ ValidateTimestamp(t)
        \/ ValidateLastRequest(t)
        \/ ValidateRead(t)
        \/ ValidateWrite(t)
        \/ CloseIn(t)
        \/ CloseDel(t)
        \/ OpenSet(t)

SpecConc == ConcInit /\ [][ConcNext]_vars

----------------------------------------------------------------------------
(* session_open and validate_session of the rate-limited variant called    *)
(* one after the other on one session id, under a clock that never goes    *)
(* back.  call records the last call and the validations accepted less     *)
(* than RATE_LIMIT_WINDOW seconds ago, as a map from the time of the       *)
(* clock to the number accepted at that time: all of them (accepted), and  *)
(* those accepted since the session was last opened (since_open), and     *)
(* the number of session_open calls so far (opens).                        *)

RateSid == "s1"

\* The entries of a map of accepted validations that are less than
\* RATE_LIMIT_WINDOW seconds old at time t
Recent(acc, t) ==
    [x \in {y \in DOMAIN acc : t - y < RATE_LIMIT_WINDOW} |-> acc[x]]

\* One more validation accepted at time t
Accept(acc, t) ==
    LET r == Recent(acc, t) IN
    DictSet(r, t, IF t \in DOMAIN r THEN r[t] + 1 ELSE 1)

\* The number of validations in a map of accepted validations
RECURSIVE Total(_)
Total(acc) ==
    IF DOMAIN acc = {} THEN 0
    ELSE LET x == CHOOSE y \in DOMAIN acc : TRUE IN
         acc[x] + Total(DictDel(acc, x))

\* The session_open calls of one run
MaxOpens == 2

RateCall(fn, result, accepted, since_open, opens) ==
    [fn |-> fn, result |-> result, accepted |-> accepted,
     since_open |-> since_open, opens |-> opens]

\* No session, or a session opened at time 0 that has had all but MaxCount
\* of the requests of its window accepted at time 0
RateInit ==
    /\ variant = "new"
    /\ SideIdle
    /\ AppIdle
    /\ now = 0
    /\ ticks = 0
    /\ mcp_response = Response("none", None, None, None, 0, None, "none")
    /\ last_ok = [s \in SessionIdInputs |-> 0]
    /\ \/ /\ active_sessions = EmptyDict
          /\ opened = {}
          /\ call = RateCall("none", FALSE, EmptyDict, EmptyDict, 0)
       \/ LET n == MAX_REQUESTS_PER_MINUTE - MaxCount IN
          /\ active_sessions =
                DictSet(EmptyDict, RateSid,
                        [timestamp |-> 0, last_request |-> 0,
                         request_count |-> n])
          /\ opened = {RateSid}
          /\ call = RateCall("none", FALSE, DictSet(EmptyDict, 0, n),
                             DictSet(EmptyDict, 0, n), 0)

\* session_open: active_sessions[session_id] = {...}
RateOpen ==
    /\ call.opens < MaxOpens
    /\ active_sessions' = DictSet(active_sessions, RateSid, NewSession(now))
    /\ call' = RateCall("session_open", TRUE, Recent(call.accepted, now),
                        EmptyDict, call.opens + 1)
    /\ UNCHANGED <<variant, now, ticks, mcp_response, opened, last_ok>>
    /\ UNCHANGED <<app_vars, side_vars>>

\* validate_session(session_id)
RateValidate ==
    /\ LET result == validate_session_new_result(active_sessions, RateSid, now)
           note(acc) == IF result THEN Accept(acc, now) ELSE Recent(acc, now)
       IN /\ active_sessions' =
                 validate_session_new_effect(active_sessions, RateSid, now)
          /\ call' = RateCall("validate_session", result,
                              note(call.accepted), note(call.since_open),
                              call.opens)
    /\ CountsBounded(active_sessions')
    /\ UNCHANGED <<variant, now, ticks, mcp_response, opened, last_ok>>
    /\ UNCHANGED <<app_vars, side_vars>>

RateNext ==
    \/ RateOpen
    \/ RateValidate
    \/ Tick

SpecRate == RateInit /\ [][RateNext]_vars

----------------------------------------------------------------------------
(* Claims about recalc_order_total *)

\* The values round(x, 2) can take for an amount of x half-cents: the
\* amount itself when it is whole cents, else one of the two cents next to it
Round2(halfcents) ==
    IF halfcents % 2 = 0 THEN {halfcents \div 2}
    ELSE {(halfcents - 1) \div 2, (halfcents + 1) \div 2}

\* price * quantity of a line item in half-cents, an absent or null price
\* or quantity counting as 0
ExactProduct(it) == OrZero(it, "price").v * OrZero(it, "quantity").v

\* The line items of the order recalc_order_total was called with, whose
\* prices and quantities are numbers, null or absent
RecalcReturned ==
    /\ call.fn = "recalc_order_total"
    /\ call.ok

RECURSIVE SumOf(_, _)
SumOf(items, n) ==
    IF n = 0 THEN 0 ELSE SumOf(items, n - 1) + items[n]["subtotal"]

\* C7 as stated: each line's subtotal is set to round(price * quantity, 2)
\* and the return value is the sum of these.
C7_Original_SubtotalIsPriceTimesQuantity ==
    RecalcReturned =>
        LET before == OrderItems(call.arg[1])
            after == OrderItems(call.out[1])
        IN /\ \A i \in 1..Len(before) :
                 after[i]["subtotal"] \in Round2(ExactProduct(before[i]))
           /\ call.total = SumOf(after, Len(after))

\* C7 as amended: each line's subtotal is set to price * int(quantity) (in
\* cents), the quantity truncated toward zero to a whole number and an
\* absent or null price or quantity counting as 0; the other fields of the
\* line stay; the return value is the sum of the subtotals.
C7_SubtotalIsPriceTimesIntQuantity ==
    RecalcReturned =>
        LET before == OrderItems(call.arg[1])
            after == OrderItems(call.out[1])
            Price(it) == IF "price" \in DOMAIN it THEN it["price"].v ELSE 0
            Halves(it) == IF "quantity" \in DOMAIN it THEN it["quantity"].v
                          ELSE 0
            Whole(h) == CHOOSE q \in (-h..h) \cup (h..-h) :
                           IF h >= 0 THEN 2 * q <= h /\ h < 2 * q + 2
                           ELSE 2 * q >= h /\ h > 2 * q - 2
        IN /\ Len(after) = Len(before)
           /\ \A i \in 1..Len(before) :
                 /\ after[i]["subtotal"] = Price(before[i]) * Whole(Halves(before[i]))
                 /\ \A f \in DOMAIN before[i] \ {"subtotal"} :
                       after[i][f] = before[i][f]
           /\ call.total = SumOf(after, Len(after))

\* C7 witness: the spec's example with a fractional quantity beside it:
\* 10.00 x 1.5 and 4.50 x 2 give subtotals 10.00 and 9.00 and total 19.00
C7_Witness ==
    /\ RecalcReturned
    /\ call.arg[1] = [id |-> "ORD1",
                      items |-> <<[price |-> Num(1000), quantity |-> Num(3)],
                                  [price |-> Num(450), quantity |-> Num(4)]>>]
    /\ call.out[1]["items"][1]["subtotal"] = 1000
    /\ call.out[1]["items"][2]["subtotal"] = 900
    /\ call.total = 1900

----------------------------------------------------------------------------
(* Claims about the order store *)

\* C2: for every email and every order whose id none of that user's stored
\* orders has, add_order_for_user(email, order) followed by
\* find_order_for_user(email, order.id) returns a record equal to the order
\* added, whatever the store held before.
C2_AddThenFind ==
    [][ call'.fn = "add_order_for_user" =>
          LET before == get_orders_for_user(CURRENT_ORDERS, call'.email) IN
          (\A i \in 1..Len(before) : Get(before[i], "id") # call'.id)
              => find_order_for_user(CURRENT_ORDERS', call'.email, call'.id)
                     = call'.arg
      ]_vars

\* C2 witness: an order was added behind another order of the same user and
\* is the one found under its id
C2_Witness ==
    /\ call.fn = "add_order_for_user"
    /\ Len(get_orders_for_user(CURRENT_ORDERS, call.email)) = 2
    /\ Get(CURRENT_ORDERS[call.email][1], "id") # call.id
    /\ CURRENT_ORDERS[call.email][2] = call.arg[1]
    /\ find_order_for_user(CURRENT_ORDERS, call.email, call.id) = call.arg

\* C3: when remove_order_for_user removes the only remaining order of a
\* user, the email is no key of the store afterwards, and
\* get_orders_for_user(email) returns the empty list.
C3_RemoveLastDropsUser ==
    [][ (/\ call'.fn = "remove_order_for_user"
         /\ call'.email \in DOMAIN CURRENT_ORDERS
         /\ Len(CURRENT_ORDERS[call'.email]) = 1
         /\ Get(CURRENT_ORDERS[call'.email][1], "id") = call'.id)
            => /\ call'.ok
               /\ call'.email \notin DOMAIN CURRENT_ORDERS'
               /\ get_orders_for_user(CURRENT_ORDERS', call'.email) = <<>>
      ]_vars

\* C3 witness: a remove has succeeded and left its user without an entry,
\* while the other user still has one
C3_Witness ==
    /\ call.fn = "remove_order_for_user"
    /\ call.ok
    /\ call.email \notin DOMAIN CURRENT_ORDERS
    /\ DOMAIN CURRENT_ORDERS # {}

\* C11: update_order_for_user(email, id, updates) returns True exactly when
\* the user has an order with that id (an order without an id field has the
\* id None); the first such order then keeps every field not named in
\* updates, takes the values of updates for the named fields and keeps its
\* position, and no other order and no other user's list changes; otherwise
\* it returns False and the store is unchanged.
C11_UpdateMergesInPlace ==
    [][ call'.fn = "update_order_for_user" =>
          LET email == call'.email
              updates == call'.arg[1]
              before == IF email \in DOMAIN CURRENT_ORDERS
                        THEN CURRENT_ORDERS[email] ELSE <<>>
              has == \E i \in 1..Len(before) : Get(before[i], "id") = call'.id
          IN /\ call'.ok = has
             /\ ~has => CURRENT_ORDERS' = CURRENT_ORDERS
             /\ has =>
                  LET i == CHOOSE k \in 1..Len(before) :
                              /\ Get(before[k], "id") = call'.id
                              /\ \A j \in 1..(k - 1) :
                                    Get(before[j], "id") # call'.id
                      after == CURRENT_ORDERS'[email]
                  IN /\ DOMAIN CURRENT_ORDERS' = DOMAIN CURRENT_ORDERS
                     /\ \A e \in DOMAIN CURRENT_ORDERS \ {email} :
                           CURRENT_ORDERS'[e] = CURRENT_ORDERS[e]
                     /\ Len(after) = Len(before)
                     /\ \A j \in (1..Len(before)) \ {i} : after[j] = before[j]
                     /\ DOMAIN after[i] = DOMAIN before[i] \cup DOMAIN updates
                     /\ \A f \in DOMAIN updates : after[i][f] = updates[f]
                     /\ \A f \in DOMAIN before[i] \ DOMAIN updates :
                           after[i][f] = before[i][f]
      ]_vars

\* C11 witness: the second of a user's two orders was found under "ORD1",
\* took the id of the updates and kept its status and its place
C11_Witness ==
    /\ call.fn = "update_order_for_user"
    /\ call.ok
    /\ call.id = "ORD1"
    /\ call.arg = <<[id |-> "ORD2"]>>
    /\ Len(CURRENT_ORDERS[call.email]) = 2
    /\ Get(CURRENT_ORDERS[call.email][1], "id") = None
    /\ CURRENT_ORDERS[call.email][2] = [id |-> "ORD2", status |-> "Shipped"]

\* What the store's reads return: the value of the dict _CURRENT_ORDERS
StoreValue(m) == Value(m.objs, m.orders)

\* C12: no value returned by a read of the order store and no argument
\* passed to a write of it shares an object with the store's own state, at
\* any nesting depth: after every call the objects reachable from what the
\* caller holds and those reachable from _CURRENT_ORDERS are disjoint, and
\* when the caller mutates an object it can reach, nested lists of line
\* items included, what the store's reads return stays the same.
C12_NoAliasing ==
    [][ /\ Reach(memory'.objs, memory'.held)
              \cap Reach(memory'.objs, {memory'.orders}) = {}
        /\ call'.fn = "mutate" => StoreValue(memory') = StoreValue(memory)
      ]_vars

\* C12 witness: the caller holds an order whose list of line items it has
\* changed, after a call that passed or returned it, while the store still
\* has the order with the list as it was
C12_Witness ==
    /\ call.fn = "mutate"
    /\ \E a \in memory.held :
          /\ memory.objs[a].kind = "order"
          /\ memory.objs[a].tag = "ORD1"
          /\ memory.objs[a].refs # <<>>
          /\ memory.objs[memory.objs[a].refs[1]].qty = 9
    /\ \E email \in MemEmails :
          /\ UserList(memory, email) # 0
          /\ \E i \in 1..Len(memory.objs[UserList(memory, email)].refs) :
                LET o == memory.objs[memory.objs[UserList(memory, email)].refs[i]]
                IN /\ o.tag = "ORD1"
                   /\ o.refs # <<>>
                   /\ memory.objs[o.refs[1]].qty = 1

----------------------------------------------------------------------------
(* Claims about the session registry *)

\* A step in which context_request or tool_run called validate_session
ValidateStep ==
    /\ ticks' = ticks
    /\ mcp_response'.route \in {"context_request", "tool_run"}
    /\ Truthy(mcp_response'.sid)

\* What validate_session returned in that step
Validated == mcp_response'.error # "invalid_session"

\* A step in which session_close looked its session id up
CloseStep ==
    /\ ticks' = ticks
    /\ mcp_response'.route = "session_close"
    /\ mcp_response'.status # 500
    /\ mcp_response'.error # "invalid_json"

\* The time since the last open or accepted validate of a session id
IdleTime(sid) == now - last_ok[sid]

\* C1: validate(id) returns true only if id was opened, not closed since,
\* and its last open or accepted validate is at most 1800 seconds old; so
\* it returns false for an id never opened, closed, or idle for longer, and
\* in the idle case the entry is gone from the registry afterwards; closing
\* an id that is not in the registry reports session_not_found.
C1_ValidateSessionContract ==
    [][ /\ ValidateStep =>
            LET sid == mcp_response'.sid IN
            /\ Validated => sid \in opened /\ IdleTime(sid) <= 1800
            /\ sid \in opened /\ IdleTime(sid) > 1800
                   => ~Validated /\ sid \notin DOMAIN active_sessions'
        /\ CloseStep /\ mcp_response'.sid \notin DOMAIN active_sessions
               => mcp_response'.status = 404
                  /\ mcp_response'.error = "session_not_found"
      ]_vars

\* C1 witness: a session that was opened and never closed has just been
\* refused after more than 1800 idle seconds, and is gone from the registry
C1_Witness ==
    /\ mcp_response.route \in {"context_request", "tool_run"}
    /\ mcp_response.error = "invalid_session"
    /\ mcp_response.sid \in opened
    /\ now - last_ok[mcp_response.sid] > SESSION_TIMEOUT
    /\ mcp_response.sid \notin DOMAIN active_sessions
    /\ variant = "new"

\* A request to context_request or tool_run has just been answered (its
\* body was JSON)
Answered(route) ==
    /\ mcp_response.route = route
    /\ mcp_response.what # None

\* ... and its session was accepted
Accepted(route) ==
    /\ Answered(route)
    /\ mcp_response.error # "invalid_session"

\* A step of one of the four /mcp handlers
McpRequestStep ==
    /\ ticks' = ticks
    /\ mcp_response'.route # "none"

C10_Original_UnknownTool404 ==
    Accepted("tool_run") /\ mcp_response.what \notin SupportedTools
        => mcp_response.status = 404

\* C10 as amended: tool_run with an accepted session and a tool that is not
\* supported answers 400 unknown_tool, whereas context_request with an
\* accepted session and an unknown resource answers 404 resource_not_found.
C10_UnknownTool400 ==
    /\ Accepted("tool_run") /\ mcp_response.what \notin SupportedTools
         => /\ mcp_response.status = 400
            /\ mcp_response.error = "unknown_tool"
            /\ mcp_response.payload = "none"
    /\ Accepted("context_request") /\ mcp_response.what \notin KnownResources
         => /\ mcp_response.status = 404
            /\ mcp_response.error = "resource_not_found"
            /\ mcp_response.payload = "none"

\* C10 witness: an accepted session asked for a tool the variant does not
\* run and was answered 400
C10_Witness ==
    /\ Accepted("tool_run")
    /\ mcp_response.what = "check_return_eligibility"
    /\ mcp_response.sid \in DOMAIN active_sessions
    /\ mcp_response.status = 400

----------------------------------------------------------------------------
(* Claims about concurrent /mcp requests *)

\* C13 as stated: the operations on the session registry are atomic, so
\* that under concurrent requests on one session id request_count never
\* exceeds the ceiling of 60 and no validate, racing with a close or with
\* another validate that expires the session, fails on a missing entry.
C13_Original_RegistryOpsAtomic ==
    /\ \A sid \in DOMAIN active_sessions :
          active_sessions[sid].request_count <= 60
    /\ \A t \in DOMAIN threads :
          threads[t].op = "validate_session" => threads[t].result # "KeyError"

----------------------------------------------------------------------------
(* Claims about the rate limit *)

\* A step that is a validate_session call on a session that is in the
\* registry and has not timed out
LiveValidateStep ==
    /\ call'.fn = "validate_session"
    /\ now' = now
    /\ RateSid \in DOMAIN active_sessions
    /\ now - active_sessions[RateSid].timestamp <= 1800

\* What a validate on a live session does: the count starts again from 0
\* when 60 seconds or more have passed since last_request and counts on
\* otherwise; below 60 the call is accepted and the count, timestamp and
\* last_request are updated, at 60 it returns false and the registry is
\* left as it was; the count never exceeds 60
WindowedCount ==
    LET s == active_sessions[RateSid]
        count == IF now - s.last_request >= 60 THEN 0 ELSE s.request_count
    IN /\ IF count < 60
          THEN /\ call'.result
               /\ active_sessions' =
                     DictSet(active_sessions, RateSid,
                             [timestamp |-> now, last_request |-> now,
                              request_count |-> count + 1])
          ELSE /\ ~call'.result
               /\ active_sessions' = active_sessions
       /\ active_sessions'[RateSid].request_count <= 60

\* C14 as stated: a validate on a live session counts within 60-second
\* windows as above, and hence no more than 60 validations are accepted
\* within any span of less than 60 seconds.
C14_Original_AtMost60PerSpan ==
    [][LiveValidateStep =>
          /\ WindowedCount
          /\ Total(call'.accepted) <= 60]_vars

\* C14: a validate on a live session counts within 60-second windows as
\* above, and no more than 60 validations are accepted within any span of
\* less than 60 seconds in which the session is not opened again; a
\* session_open on the same id starts the count again from 0 at once.
C14_AtMost60PerSpanBetweenOpens ==
    [][/\ LiveValidateStep =>
             /\ WindowedCount
             /\ Total(call'.since_open) <= 60
       /\ (call'.fn = "session_open" /\ now' = now) =>
             /\ active_sessions'[RateSid].request_count = 0
             /\ Total(call'.since_open) = 0]_vars

\* The 61st validation of a window was refused, the session entry holding
\* a count of 60
C14_Witness ==
    /\ call.fn = "validate_session"
    /\ ~call.result
    /\ RateSid \in DOMAIN active_sessions
    /\ active_sessions[RateSid].request_count = 60
    /\ Total(call.since_open) = 60

----------------------------------------------------------------------------
(* Claims about the routes of main.py *)

ProtectedRoutes ==
    {"get_items", "get_orders", "get_order_status", "calculate_bulk_order",
     "update_shipping_address", "put_order", "login", "logout"}

\* C4: on every route wrapped by require_api_key, a request whose X-API-KEY
\* header is absent, empty or not the configured key is answered 401 with
\* the error "Invalid or missing API key", the wrapped handler is not
\* entered, no data is returned, and the order store and the current-user
\* slot are left as they were.
C4_InvalidKeyRejected ==
    [][ (/\ http_response'.route \in ProtectedRoutes
         /\ http_response'.key # "qqww22ttzxqwr6778")
          => /\ http_response'.status = 401
             /\ http_response'.error = "Invalid or missing API key"
             /\ ~http_response'.entered
             /\ http_response'.body = <<>>
             /\ UNCHANGED <<CURRENT_ORDERS, CURRENT_USER>> ]_vars

\* C4 witness: a full replace sent with a wrong key, after a login and a
\* replace changed the slot and the store, has been turned away
C4_Witness ==
    /\ http_response.route = "put_order"
    /\ http_response.key = "wrong"
    /\ http_response.status = 401
    /\ CURRENT_USER # <<>>
    /\ CURRENT_ORDERS \notin InitialStores

\* The order a successful full replace has just stored
PutSucceeded ==
    /\ http_response.route = "put_order"
    /\ http_response.status = 200

StoredOrder ==
    find_order_for_user(CURRENT_ORDERS, get_current_user(CURRENT_USER)[1].email,
                        http_response.order_id)[1]

\* The whole part of a quantity of h halves, cut toward zero
WholePart(h) ==
    CHOOSE q \in (-h..h) \cup (h..-h) :
        IF h >= 0 THEN 2 * q <= h /\ h < 2 * q + 2
        ELSE 2 * q >= h /\ h > 2 * q - 2

\* C6 as stated: after every successful full replace, whatever the payload
\* contains, the stored order's order_total is the sum of its line items'
\* subtotals.
C6_Original_TotalIsSumOfSubtotals ==
    PutSucceeded =>
        StoredOrder["order_total"]
            = SumOf(StoredOrder["items"], Len(StoredOrder["items"]))

\* C6 as amended: after a successful full replace the stored order has the
\* URL's id and the payload's line items, each with its subtotal set to
\* price * int(quantity); its order_total is the sum of these subtotals when
\* the payload has no order_total field, and the payload's order_total, kept
\* as sent, when it has one.  The response body is the stored order.
C6_TotalRecomputedUnlessSupplied ==
    PutSucceeded =>
        LET payload == http_response.payload[1]
            items == StoredOrder["items"]
            Price(it) == IF "price" \in DOMAIN it THEN it["price"].v ELSE 0
            Halves(it) == IF "quantity" \in DOMAIN it THEN it["quantity"].v
                          ELSE 0
        IN /\ http_response.body = <<StoredOrder>>
           /\ StoredOrder["id"] = http_response.order_id
           /\ Len(items) = Len(payload["items"])
           /\ \A i \in 1..Len(items) :
                 items[i]["subtotal"]
                     = Price(payload["items"][i])
                         * WholePart(Halves(payload["items"][i]))
           /\ "order_total" \notin DOMAIN payload
                 => StoredOrder["order_total"] = SumOf(items, Len(items))
           /\ "order_total" \in DOMAIN payload
                 => StoredOrder["order_total"] = payload["order_total"]

\* C6 witness: a replace by two lines without an order_total, 4.50 x 1.5 and
\* a line without a price, stored the subtotals 4.50 and 0 and the total 4.50
C6_Witness ==
    /\ PutSucceeded
    /\ http_response.payload = <<[items |-> PutLines]>>
    /\ StoredOrder["items"][1]["subtotal"] = 450
    /\ StoredOrder["items"][2]["subtotal"] = 0
    /\ StoredOrder["order_total"] = 450

\* The entries C8 calls invalid: not an object, a missing or blank name, a
\* missing or non-numeric quantity, a quantity <= 0
InvalidEntry(item) ==
    \/ "notobj" \in DOMAIN item
    \/ "name" \notin DOMAIN item
    \/ item["name"] \in {"", "  "}
    \/ "quantity" \notin DOMAIN item
    \/ item["quantity"].t \in {"str", "null"}
    \/ (item["quantity"].t \in {"num", "numstr"} /\ item["quantity"].v <= 0)

\* C8 as stated: calculate-bulk answers 400 whenever an entry of the items
\* list is invalid; the error names the first invalid entry of the list, by
\* its index or by its name, and get_bulk_order_quote is not invoked.
C8_Original_InvalidEntry400 ==
    (/\ http_response.route = "calculate_bulk_order"
     /\ http_response.entered
     /\ http_response.payload # <<>>
     /\ "items" \in DOMAIN http_response.payload[1]
     /\ \E i \in 1..Len(http_response.payload[1]["items"]) :
           InvalidEntry(http_response.payload[1]["items"][i]))
        => LET items == http_response.payload[1]["items"]
               first == CHOOSE i \in 1..Len(items) :
                           /\ InvalidEntry(items[i])
                           /\ \A j \in 1..(i - 1) : ~InvalidEntry(items[j])
           IN /\ http_response.status = 400
              /\ \/ http_response.body = <<[idx |-> first - 1]>>
                 \/ /\ "notobj" \notin DOMAIN items[first]
                    /\ "name" \in DOMAIN items[first]
                    /\ http_response.body = <<[name |-> items[first]["name"]]>>

UserScopedRoutes ==
    {"get_orders", "get_order_status", "update_shipping_address", "put_order"}

\* C9 as stated: while the current-user slot is empty, GET /api/orders,
\* GET /order/status, POST /order/update-shipping and PUT put_order answer
\* 401 "No user logged in" without order data, and POST /logout answers 401.
C9_Original_EmptySlot401 ==
    [][ (/\ CURRENT_USER = <<>>
         /\ http_response'.route \in UserScopedRoutes \cup {"logout"}
         /\ http_response'.key = "qqww22ttzxqwr6778")
          => /\ http_response'.status = 401
             /\ http_response'.route \in UserScopedRoutes
                   => /\ http_response'.error = "No user logged in"
                      /\ http_response'.body = <<>> ]_vars

\* The ids of the orders stored for each email, in the order of the lists
StoredIds(store) ==
    [e \in DOMAIN store |->
        [i \in 1..Len(store[e]) |-> Get(store[e][i], "id")]]

OrderFields == {"id", "status", "shipping_address", "items", "order_total"}

\* store2 differs from store at most in the given fields of the first
\* order of the email's list that has the given id
OnlyChanged(store, store2, email, id, fields) ==
    /\ DOMAIN store2 = DOMAIN store
    /\ \A e \in DOMAIN store :
          /\ Len(store2[e]) = Len(store[e])
          /\ \A i \in 1..Len(store[e]) :
                LET old == store[e][i]
                    new == store2[e][i]
                    targeted ==
                        /\ e = email
                        /\ Get(old, "id") = id
                        /\ \A j \in 1..(i - 1) : Get(store[e][j], "id") # id
                IN IF targeted
                   THEN \A f \in ((DOMAIN old) \cup (DOMAIN new)) \ fields :
                           /\ f \in DOMAIN old
                           /\ f \in DOMAIN new
                           /\ new[f] = old[f]
                   ELSE new = old

C16_Original_QuotedItemsValid ==
    (/\ http_response.route = "calculate_bulk_order"
     /\ http_response.status = 200)
        => \A i \in 1..Len(http_response.body[1].quote) :
              LET passed == http_response.body[1].quote[i] IN
              /\ passed.name = Strip(passed.name)
              /\ passed.name # ""
              /\ passed.quantity \in Int
              /\ passed.quantity >= 1

====
